---- MODULE Spec2Model ----
(***************************************************************************)
(* Model of pytest-opentelemetry-exporter: the AnyValue oneof validator    *)
(* (models.py), the attribute lookup get_attribute and the extraction of   *)
(* business HTTP requests (request_extractor.py), the identifier fixtures  *)
(* and the hook pytest_sessionfinish (pytest_plugin.py).                   *)
(*                                                                         *)
(* Python values are tagged records, one payload field per type so that    *)
(* values of different types are always comparable:                        *)
(*   None -> [t |-> "None"]          str   -> [t |-> "str",   s |-> "..."] *)
(*   int  -> [t |-> "int", n |-> 7]  float -> [t |-> "float", x10 |-> 15]  *)
(*   bool -> [t |-> "bool", b |-> TRUE]                                    *)
(* A float is held as ten times its value (one decimal digit).  A dict is  *)
(* a record whose DOMAIN is the set of keys present, a list is a sequence. *)
(* A raised exception is [t |-> "raise", exc |-> "<class>"].               *)
(***************************************************************************)
EXTENDS Integers, Sequences, FiniteSets, TLC

VARIABLES
    values, constructed,        \* AnyValue construction: keyword dict, outcome
    attributes, key, ret,       \* get_attribute(attributes, key): inputs, outcome
    pc,                         \* extract_business_http_requests: loop it is in
    batches_left,               \* entries of data["batches"] not yet iterated
    batch, service_name,        \* current batch and its resolved service.name
    scopes_left,                \* entries of batch["scopeSpans"] not yet iterated
    scope_span,                 \* current scope entry
    spans_left,                 \* entries of scope_span["spans"] not yet iterated
    span,                       \* current span
    business_http_requests,     \* the list being accumulated
    result,                     \* what the call returned or raised
    uuids,                      \* pytest plugin: uuid4() calls made so far
    fixture_result,             \* what the last fixture call returned or raised
    trace_ids, span_ids,        \* the module's shared lists
    db_trace_ids, db_span_ids,  \* committed rows of the tables trace_ids, span_ids
    pending,                    \* rows inserted on the fixtures' connection, not committed
    endpoint,                   \* PYTEST_OTEL_EXPORT_QUERY_ENDPOINT
    hook_pc,                    \* pytest_sessionfinish: where it is
    hook_index,                 \* entries of trace_ids the loop has completed
    hook_trace_id,              \* the loop variable trace_id
    json_data,                  \* what fetch_trace_data returned for it
    summarized_json_data,       \* what extract_business_http_requests made of it
    staged,                     \* rows inserted on the hook's connection, not committed
    traces_data,                \* committed rows of the table traces_data
    hook_result                 \* how the hook ended

vars ==
    <<values, constructed, attributes, key, ret, pc, batches_left, batch,
      service_name, scopes_left, scope_span, spans_left, span,
      business_http_requests, result, uuids, fixture_result, trace_ids, span_ids,
      db_trace_ids, db_span_ids, pending, endpoint, hook_pc, hook_index,
      hook_trace_id, json_data, summarized_json_data, staged, traces_data,
      hook_result>>

valueVars == <<values, constructed>>

attrVars == <<attributes, key, ret>>

extractVars ==
    <<pc, batches_left, batch, service_name, scopes_left, scope_span,
      spans_left, span, business_http_requests, result>>

fixtureVars ==
    <<uuids, fixture_result, trace_ids, span_ids, db_trace_ids, db_span_ids, pending>>

hookVars ==
    <<endpoint, hook_pc, hook_index, hook_trace_id, json_data, summarized_json_data,
      staged, traces_data, hook_result>>

pluginVars == <<fixtureVars, hookVars>>

----------------------------------------------------------------------------
(* Python values and the builtins the code applies to them                 *)

None == [t |-> "None"]

PyStr(s) == [t |-> "str", s |-> s]

PyInt(n) == [t |-> "int", n |-> n]

PyFloat(x10) == [t |-> "float", x10 |-> x10]

PyBool(b) == [t |-> "bool", b |-> b]

PyObj(name) == [t |-> "obj", name |-> name]

Raise(exc) == [t |-> "raise", exc |-> exc]

IsRaise(v) == v.t = "raise"

NotStarted == [t |-> "pending"]

Digits == {"0", "1", "2", "3", "4", "5", "6", "7", "8", "9"}

DigitVal(c) ==
    CASE c = "0" -> 0 [] c = "1" -> 1 [] c = "2" -> 2 [] c = "3" -> 3
      [] c = "4" -> 4 [] c = "5" -> 5 [] c = "6" -> 6 [] c = "7" -> 7
      [] c = "8" -> 8 [] c = "9" -> 9

CharAt(s, i) == SubSeq(s, i, i)

AllDigits(s) == Len(s) > 0 /\ \A i \in 1..Len(s) : CharAt(s, i) \in Digits

RECURSIVE ParseDigits(_)
ParseDigits(s) ==
    IF Len(s) = 0 THEN 0
    ELSE 10 * ParseDigits(SubSeq(s, 1, Len(s) - 1)) + DigitVal(CharAt(s, Len(s)))

\* the literals int() accepts here: an optional sign and decimal digits
IsIntLiteral(s) ==
    IF Len(s) > 0 /\ CharAt(s, 1) \in {"-", "+"}
    THEN AllDigits(SubSeq(s, 2, Len(s)))
    ELSE AllDigits(s)

ParseInt(s) ==
    IF CharAt(s, 1) = "-" THEN 0 - ParseDigits(SubSeq(s, 2, Len(s)))
    ELSE IF CharAt(s, 1) = "+" THEN ParseDigits(SubSeq(s, 2, Len(s)))
    ELSE ParseDigits(s)

\* the position of the decimal point of s, 0 when it has none
DotAt(s) ==
    IF \E i \in 1..Len(s) : CharAt(s, i) = "."
    THEN CHOOSE i \in 1..Len(s) : CharAt(s, i) = "." /\ \A j \in 1..(i - 1) : CharAt(s, j) # "."
    ELSE 0

\* the float literals within the model's precision: digits "." one digit
IsFloatLiteral(s) ==
    /\ DotAt(s) > 1
    /\ DotAt(s) = Len(s) - 1
    /\ AllDigits(SubSeq(s, 1, DotAt(s) - 1))
    /\ CharAt(s, Len(s)) \in Digits

ParseFloat10(s) ==
    10 * ParseDigits(SubSeq(s, 1, DotAt(s) - 1)) + DigitVal(CharAt(s, Len(s)))

\* truncation towards zero of x10 / 10
Trunc10(x10) == IF x10 >= 0 THEN x10 \div 10 ELSE 0 - ((0 - x10) \div 10)

\* int(x)
int(x) ==
    CASE x.t = "int" -> x
      [] x.t = "bool" -> PyInt(IF x.b THEN 1 ELSE 0)
      [] x.t = "float" -> PyInt(Trunc10(x.x10))
      [] x.t = "str" -> IF IsIntLiteral(x.s) THEN PyInt(ParseInt(x.s)) ELSE Raise("ValueError")
      [] OTHER -> Raise("TypeError")

\* float(x)
float(x) ==
    CASE x.t = "float" -> x
      [] x.t = "int" -> PyFloat(10 * x.n)
      [] x.t = "bool" -> PyFloat(IF x.b THEN 10 ELSE 0)
      [] x.t = "str" -> IF IsIntLiteral(x.s) THEN PyFloat(10 * ParseInt(x.s))
                        ELSE IF IsFloatLiteral(x.s) THEN PyFloat(ParseFloat10(x.s))
                        ELSE Raise("ValueError")
      [] OTHER -> Raise("TypeError")

\* bool(x): the truth value `not x` negates
Truthy(x) ==
    CASE x.t = "None" -> FALSE
      [] x.t = "str" -> Len(x.s) > 0
      [] x.t = "int" -> x.n # 0
      [] x.t = "float" -> x.x10 # 0
      [] x.t = "bool" -> x.b
      [] OTHER -> TRUE

\* x == "literal"
EqStr(x, literal) == x.t = "str" /\ x.s = literal

\* the dict {}
EmptyDict == <<>>

\* d.get(k, default)
Get(d, k, default) == IF k \in DOMAIN d THEN d[k] ELSE default

----------------------------------------------------------------------------
(* models.py: AnyValue and its root validator                              *)

fields ==
    <<"stringValue", "boolValue", "intValue", "doubleValue",
      "arrayValue", "kvlistValue", "bytesValue">>

OneofMessage == "Only one of the fields in AnyValue can be set"

RaiseMsg(exc, msg) == [t |-> "raise", exc |-> exc, msg |-> msg]

\* variant of set_fields that takes a key given as None for a populated field
set_fields_present(vals) ==
    SelectSeq(fields, LAMBDA field : field \in DOMAIN vals)

\* set_fields = [field for field in fields if values.get(field) is not None]
set_fields(vals) ==
    SelectSeq(fields, LAMBDA field : Get(vals, field, None) # None)

\* variant of check_oneof that tolerates two populated fields
check_oneof_pair(vals) ==
    IF Len(set_fields(vals)) > 2
    THEN RaiseMsg("ValueError", OneofMessage)
    ELSE [t |-> "ok", values |-> vals]

check_oneof(vals) ==
    IF Len(set_fields(vals)) > 1
    THEN RaiseMsg("ValueError", OneofMessage)
    ELSE [t |-> "ok", values |-> vals]

\* AnyValue(...): the pre root validator runs first; an error it raises
\* aborts the construction, otherwise the object holds every declared field,
\* the ones not given defaulting to None
AnyValue(vals) ==
    LET checked == check_oneof(vals) IN
        IF IsRaise(checked) THEN checked
        ELSE [t |-> "AnyValue",
              obj |-> [f \in {fields[i] : i \in 1..Len(fields)} |-> Get(checked.values, f, None)]]

----------------------------------------------------------------------------
(* request_extractor.py: get_attribute                                     *)

\* the scan of `for attr in attributes` from position i on; an entry whose
\* key matches but whose value holds none of the three variants falls out of
\* the if/elif chain without a return, and the loop goes on
RECURSIVE get_attribute_from(_, _, _)
get_attribute_from(attrs, k, i) ==
    IF i > Len(attrs) THEN None
    ELSE LET attr == attrs[i]
             value == attr.value
         IN  IF attr.key = k
             THEN IF "stringValue" \in DOMAIN value THEN value.stringValue
                  ELSE IF "intValue" \in DOMAIN value THEN int(value.intValue)
                  ELSE IF "doubleValue" \in DOMAIN value THEN float(value.doubleValue)
                  ELSE get_attribute_from(attrs, k, i + 1)
             ELSE get_attribute_from(attrs, k, i + 1)

get_attribute(attrs, k) == get_attribute_from(attrs, k, 1)

----------------------------------------------------------------------------
(* request_extractor.py: extract_business_http_requests                    *)

\* resource = batch.get("resource", {}); attributes = resource.get("attributes", {})
\* (a for loop over the default {} has no iterations, like one over [])
ResourceAttributes(b) == Get(Get(b, "resource", EmptyDict), "attributes", EmptyDict)

\* variant of ServiceName that names a batch without resource "unknown"
ServiceName_default(b) ==
    IF "resource" \notin DOMAIN b THEN PyStr("unknown")
    ELSE get_attribute(ResourceAttributes(b), "service.name")

\* service_name = get_attribute(attributes, "service.name")
ServiceName(b) == get_attribute(ResourceAttributes(b), "service.name")

\* variant of SkipBatch that skips nothing
SkipBatch_never(name) == FALSE

\* variant of SkipBatch that compares without regard to case
SkipBatch_nocase(name) == name.t = "str" /\ name.s \in {"kong", "Kong", "KONG"}

\* if service_name == "kong": continue
SkipBatch(name) == EqStr(name, "kong")

\* span_attributes = span.get("attributes", [])
SpanAttributes(sp) == Get(sp, "attributes", <<>>)

\* variant of IsNonHttp that tests `http_method is None`
IsNonHttp_none(http_method) == http_method = None

\* if not http_method: continue
IsNonHttp(http_method) == ~Truthy(http_method)

\* variant of IsNotServer that only rejects a span without kind
IsNotServer_unset(kind) == kind = None

\* if kind != "SPAN_KIND_SERVER": continue
IsNotServer(kind) == ~EqStr(kind, "SPAN_KIND_SERVER")

\* variant of BusinessHttpRequest that takes span_name from the http.url attribute
BusinessHttpRequest_renamed(sp, name) ==
    [trace_id |-> Get(sp, "traceId", None),
     span_id |-> Get(sp, "spanId", None),
     parent_span_id |-> Get(sp, "parentSpanId", None),
     service_name |-> name,
     span_name |-> get_attribute(SpanAttributes(sp), "http.url"),
     kind |-> Get(sp, "kind", None),
     start_time_unix_nano |-> Get(sp, "startTimeUnixNano", None),
     end_time_unix_nano |-> Get(sp, "endTimeUnixNano", None),
     http_method |-> get_attribute(SpanAttributes(sp), "http.method"),
     http_url |-> get_attribute(SpanAttributes(sp), "http.url"),
     http_status_code |-> get_attribute(SpanAttributes(sp), "http.status_code")]

\* the dict appended for a span
BusinessHttpRequest(sp, name) ==
    [trace_id |-> Get(sp, "traceId", None),
     span_id |-> Get(sp, "spanId", None),
     parent_span_id |-> Get(sp, "parentSpanId", None),
     service_name |-> name,
     span_name |-> Get(sp, "name", None),
     kind |-> Get(sp, "kind", None),
     start_time_unix_nano |-> Get(sp, "startTimeUnixNano", None),
     end_time_unix_nano |-> Get(sp, "endTimeUnixNano", None),
     http_method |-> get_attribute(SpanAttributes(sp), "http.method"),
     http_url |-> get_attribute(SpanAttributes(sp), "http.url"),
     http_status_code |-> get_attribute(SpanAttributes(sp), "http.status_code")]

\* variant of Emit that inserts at the front
Emit_front(list, request) == <<request>> \o list

\* business_http_requests.append(...)
Emit(list, request) == Append(list, request)

\* the body of `for span in spans` for one span: the list afterwards
ProcessSpan(list, sp, name) ==
    IF IsNonHttp(get_attribute(SpanAttributes(sp), "http.method")) THEN list
    ELSE IF IsNotServer(Get(sp, "kind", None)) THEN list
    ELSE Emit(list, BusinessHttpRequest(sp, name))

----------------------------------------------------------------------------
(* Inputs                                                                  *)

MaxAttrs == 2

fieldSet == {fields[i] : i \in 1..Len(fields)}

\* well-typed sample payloads of each variant; each has a falsy sample
Samples(field) ==
    CASE field = "stringValue" -> {PyStr(""), PyStr("a")}
      [] field = "boolValue" -> {PyBool(FALSE), PyBool(TRUE)}
      [] field = "intValue" -> {PyInt(0), PyInt(7)}
      [] field = "doubleValue" -> {PyFloat(0)}
      [] field = "arrayValue" -> {PyObj("ArrayValue")}
      [] field = "kvlistValue" -> {PyObj("KeyValueList")}
      [] field = "bytesValue" -> {PyStr("")}

Absent == [t |-> "absent"]

\* the keyword dicts given to AnyValue(...): any subset of the seven fields,
\* each given either as an explicit None or with a payload
AnyValueInputs ==
    {[f \in {g \in fieldSet : c[g] # Absent} |-> c[f]] :
        c \in [stringValue : {Absent, None} \cup Samples("stringValue"),
               boolValue   : {Absent, None} \cup Samples("boolValue"),
               intValue    : {Absent, None} \cup Samples("intValue"),
               doubleValue : {Absent, None} \cup Samples("doubleValue"),
               arrayValue  : {Absent, None} \cup Samples("arrayValue"),
               kvlistValue : {Absent, None} \cup Samples("kvlistValue"),
               bytesValue  : {Absent, None} \cup Samples("bytesValue")]}

\* AnyValue dicts as they arrive in decoded JSON: empty, one variant (an
\* intValue as a number or as the decimal string of the OTLP JSON encoding),
\* or several variants at once
AttrValues ==
    { EmptyDict,
      [stringValue |-> PyStr("GET")], [stringValue |-> PyStr("")],
      [intValue |-> PyInt(200)], [intValue |-> PyStr("404")], [intValue |-> PyInt(0)],
      [doubleValue |-> PyFloat(15)], [doubleValue |-> PyStr("2.5")], [doubleValue |-> PyInt(3)],
      [boolValue |-> PyBool(TRUE)], [arrayValue |-> PyObj("ArrayValue")],
      [kvlistValue |-> PyObj("KeyValueList")], [bytesValue |-> PyStr("AQ")],
      [stringValue |-> PyStr("GET"), intValue |-> PyInt(200)],
      [intValue |-> PyStr("404"), doubleValue |-> PyFloat(15)],
      [stringValue |-> PyStr("a"), doubleValue |-> PyFloat(15)],
      [boolValue |-> PyBool(TRUE), doubleValue |-> PyFloat(15)] }

AttrKeys == {"http.method", "http.url"}

KeyValues == [key : AttrKeys, value : AttrValues]

AttrLists == UNION {[1..n -> KeyValues] : n \in 0..MaxAttrs}

----------------------------------------------------------------------------
(* Inputs of extract_business_http_requests.  The lists data["batches"],   *)
(* batch["scopeSpans"] and scope_span["spans"] are held by their lengths:  *)
(* an entry is drawn when its loop reaches it, so every input within the   *)
(* bounds is covered and an entry the code never reads is never drawn.     *)
(* Attribute payloads are well typed (types.py), so int() and float() do   *)
(* not raise on them.                                                      *)

MaxBatches == 2

MaxScopes == 2

MaxSpans == 2

ServiceAttr(name) == [key |-> "service.name", value |-> [stringValue |-> PyStr(name)]]

\* a resource without attributes, the gateway's, and one whose service name
\* differs from the gateway's in case only
Resources ==
    { EmptyDict,
      [attributes |-> <<ServiceAttr("kong")>>],
      [attributes |-> <<ServiceAttr("Kong")>>] }

\* a batch: with or without "resource", with or without "scopeSpans"
Batches ==
    {EmptyDict} \cup {[scopeSpans |-> n] : n \in 0..MaxScopes}
    \cup {[resource |-> r] : r \in Resources}
    \cup {[resource |-> r, scopeSpans |-> n] : r \in Resources, n \in 0..MaxScopes}

\* a scope entry: with or without "spans"
ScopeSpans == {EmptyDict} \cup {[spans |-> n] : n \in 0..MaxSpans}

\* a valid http.method with url and status code
HttpAttrs ==
    <<[key |-> "http.method", value |-> [stringValue |-> PyStr("POST")]],
      [key |-> "http.url", value |-> [stringValue |-> PyStr("/pay")]],
      [key |-> "http.status_code", value |-> [intValue |-> PyInt(200)]]>>

\* an empty http.method
EmptyMethodAttrs ==
    <<[key |-> "http.method", value |-> [stringValue |-> PyStr("")]],
      [key |-> "http.url", value |-> [stringValue |-> PyStr("/pay")]]>>

\* no http.method entry
NoMethodAttrs ==
    <<[key |-> "http.url", value |-> [stringValue |-> PyStr("/pay")]],
      [key |-> "http.status_code", value |-> [intValue |-> PyInt(200)]]>>

SpanBase ==
    [traceId |-> PyStr("0123"), spanId |-> PyStr("abcd"), name |-> PyStr("POST /pay"),
     startTimeUnixNano |-> PyInt(100), endTimeUnixNano |-> PyInt(150)]

\* spans with and without "kind", with and without "attributes": the same
\* span under each kind, and a server span under each shape of attributes
Spans ==
    { SpanBase @@ [kind |-> PyStr("SPAN_KIND_SERVER"), attributes |-> HttpAttrs],
      SpanBase @@ [kind |-> PyStr("SPAN_KIND_CLIENT"), attributes |-> HttpAttrs],
      SpanBase @@ [kind |-> PyStr("SPAN_KIND_INTERNAL"), attributes |-> HttpAttrs],
      SpanBase @@ [attributes |-> HttpAttrs],
      SpanBase @@ [kind |-> PyStr("SPAN_KIND_SERVER"), attributes |-> EmptyMethodAttrs],
      SpanBase @@ [kind |-> PyStr("SPAN_KIND_SERVER"), attributes |-> NoMethodAttrs],
      SpanBase @@ [kind |-> PyStr("SPAN_KIND_SERVER")] }

----------------------------------------------------------------------------
(* The parts of the state a specification does not use stay as they are    *)

ValueIdle == values = EmptyDict /\ constructed = NotStarted

AttrIdle == attributes = <<>> /\ key = "" /\ ret = NotStarted

ExtractIdle ==
    /\ pc = "idle" /\ batches_left = 0 /\ batch = EmptyDict /\ service_name = None
    /\ scopes_left = 0 /\ scope_span = EmptyDict /\ spans_left = 0
    /\ span = EmptyDict /\ business_http_requests = <<>> /\ result = NotStarted

PluginIdle ==
    /\ uuids = 0 /\ fixture_result = NotStarted
    /\ trace_ids = <<>> /\ span_ids = <<>>
    /\ db_trace_ids = {} /\ db_span_ids = {} /\ pending = {}
    /\ endpoint = None /\ hook_pc = "idle" /\ hook_index = 0 /\ hook_trace_id = None
    /\ json_data = None /\ summarized_json_data = None
    /\ staged = <<>> /\ traces_data = EmptyDict /\ hook_result = NotStarted

----------------------------------------------------------------------------
(* AnyValue construction                                                   *)

InitAnyValue ==
    /\ values \in AnyValueInputs
    /\ constructed = NotStarted
    /\ AttrIdle
    /\ ExtractIdle
    /\ PluginIdle

Construct ==
    /\ constructed = NotStarted
    /\ constructed' = AnyValue(values)
    /\ UNCHANGED <<values, attrVars, extractVars, pluginVars>>

NextAnyValue == Construct

SpecAnyValue == InitAnyValue /\ [][NextAnyValue]_vars

----------------------------------------------------------------------------
(* get_attribute(attributes, key)                                          *)

InitAttr ==
    /\ attributes \in AttrLists
    /\ key \in AttrKeys
    /\ ret = NotStarted
    /\ ValueIdle
    /\ ExtractIdle
    /\ PluginIdle

GetAttribute ==
    /\ ret = NotStarted
    /\ ret' = get_attribute(attributes, key)
    /\ UNCHANGED <<attributes, key, valueVars, extractVars, pluginVars>>

NextAttr == GetAttribute

SpecAttr == InitAttr /\ [][NextAttr]_vars

----------------------------------------------------------------------------
(* extract_business_http_requests(data)                                    *)

Init ==
    /\ pc = "batches"
    /\ batches_left \in 0..MaxBatches
    /\ batch = EmptyDict /\ service_name = None
    /\ scopes_left = 0 /\ scope_span = EmptyDict /\ spans_left = 0
    /\ span = EmptyDict
    /\ business_http_requests = <<>>
    /\ result = NotStarted
    /\ ValueIdle
    /\ AttrIdle
    /\ PluginIdle

\* one iteration of `for batch in data["batches"]` up to the scope loop:
\* a "kong" batch is left at once; batch.get("scopeSpans") is None when the
\* key is missing, and iterating None raises TypeError
NextBatchOf(inputs) ==
    /\ pc = "batches"
    /\ batches_left > 0
    /\ \E b \in inputs :
          /\ batch' = b
          /\ service_name' = ServiceName(b)
          /\ batches_left' = batches_left - 1
          /\ IF SkipBatch(ServiceName(b))
             THEN pc' = "batches" /\ UNCHANGED <<scopes_left, result>>
             ELSE IF "scopeSpans" \notin DOMAIN b
                  THEN pc' = "raised" /\ result' = Raise("TypeError") /\ UNCHANGED scopes_left
                  ELSE pc' = "scopes" /\ scopes_left' = b.scopeSpans /\ UNCHANGED result
    /\ UNCHANGED <<scope_span, spans_left, span, business_http_requests, valueVars, attrVars, pluginVars>>

NextBatch == NextBatchOf(Batches)

\* one iteration of `for scope_span in batch.get("scopeSpans")` up to the
\* span loop: scope_span.get("spans") is None when the key is missing, and
\* iterating None raises TypeError
NextScope ==
    /\ pc = "scopes"
    /\ scopes_left > 0
    /\ \E sc \in ScopeSpans :
          /\ scope_span' = sc
          /\ scopes_left' = scopes_left - 1
          /\ IF "spans" \notin DOMAIN sc
             THEN pc' = "raised" /\ result' = Raise("TypeError") /\ UNCHANGED spans_left
             ELSE pc' = "spans" /\ spans_left' = sc.spans /\ UNCHANGED result
    /\ UNCHANGED <<batches_left, batch, service_name, span, business_http_requests,
                   valueVars, attrVars, pluginVars>>

\* one iteration of `for span in spans`
NextSpanOf(inputs) ==
    /\ pc = "spans"
    /\ spans_left > 0
    /\ \E sp \in inputs :
          /\ span' = sp
          /\ spans_left' = spans_left - 1
          /\ business_http_requests' = ProcessSpan(business_http_requests, sp, service_name)
    /\ UNCHANGED <<pc, batches_left, batch, service_name, scopes_left, scope_span,
                   result, valueVars, attrVars, pluginVars>>

NextSpan == NextSpanOf(Spans)

\* `for span in spans` is exhausted.  The loop variables span and
\* scope_span are not read again before they are assigned anew: they are
\* cleared, so that states differing only in such dead values coincide.
EndSpans ==
    /\ pc = "spans"
    /\ spans_left = 0
    /\ pc' = "scopes"
    /\ span' = EmptyDict
    /\ scope_span' = EmptyDict
    /\ UNCHANGED <<batches_left, batch, service_name, scopes_left, spans_left,
                   business_http_requests, result, valueVars, attrVars, pluginVars>>

\* `for scope_span in ...` is exhausted.  batch and service_name are dead
\* until the next batch assigns them: they are cleared likewise.
EndScopes ==
    /\ pc = "scopes"
    /\ scopes_left = 0
    /\ pc' = "batches"
    /\ batch' = EmptyDict
    /\ service_name' = None
    /\ UNCHANGED <<batches_left, scopes_left, scope_span, spans_left,
                   span, business_http_requests, result, valueVars, attrVars, pluginVars>>

\* variant of Return that gives None instead of an empty list
Return_none ==
    /\ pc = "batches"
    /\ batches_left = 0
    /\ pc' = "returned"
    /\ result' = IF business_http_requests = <<>> THEN None
                 ELSE [t |-> "list", items |-> business_http_requests]
    /\ UNCHANGED <<batches_left, batch, service_name, scopes_left, scope_span, spans_left,
                   span, business_http_requests, valueVars, attrVars, pluginVars>>

\* `for batch in data["batches"]` is exhausted: return business_http_requests
Return ==
    /\ pc = "batches"
    /\ batches_left = 0
    /\ pc' = "returned"
    /\ result' = [t |-> "list", items |-> business_http_requests]
    /\ UNCHANGED <<batches_left, batch, service_name, scopes_left, scope_span, spans_left,
                   span, business_http_requests, valueVars, attrVars, pluginVars>>

Next == NextBatch \/ NextScope \/ NextSpan \/ EndSpans \/ EndScopes \/ Return

Spec == Init /\ [][Next]_vars

----------------------------------------------------------------------------
(* extract_business_http_requests on a single batch with one scope entry,  *)
(* with spans of every shape: identifiers and times present or missing,    *)
(* url and status code present or missing, the status code as a number or  *)
(* as a decimal string                                                     *)

RecordResources ==
    { EmptyDict,
      [attributes |-> <<>>],
      [attributes |-> <<ServiceAttr("checkout")>>],
      [attributes |-> <<ServiceAttr("KONG")>>] }

RecordBatches ==
    {[scopeSpans |-> 1]} \cup {[resource |-> r, scopeSpans |-> 1] : r \in RecordResources}

MethodAttr == [key |-> "http.method", value |-> [stringValue |-> PyStr("POST")]]

UrlAttr == [key |-> "http.url", value |-> [stringValue |-> PyStr("/pay")]]

RecordAttrs ==
    { HttpAttrs,
      <<MethodAttr>>,
      <<MethodAttr, UrlAttr>>,
      <<MethodAttr, [key |-> "http.status_code", value |-> [intValue |-> PyStr("404")]]>>,
      <<[key |-> "http.status_code", value |-> [boolValue |-> PyBool(TRUE)]], UrlAttr, MethodAttr>> }

SpanBases ==
    { SpanBase,
      SpanBase @@ [parentSpanId |-> PyStr("ffff")],
      [spanId |-> PyStr("abcd")] }

RecordSpans ==
    {base @@ [kind |-> PyStr(k), attributes |-> a] :
        base \in SpanBases, k \in {"SPAN_KIND_SERVER", "SPAN_KIND_CLIENT"}, a \in RecordAttrs}

InitRecord ==
    /\ pc = "batches"
    /\ batches_left = 1
    /\ batch = EmptyDict /\ service_name = None
    /\ scopes_left = 0 /\ scope_span = EmptyDict /\ spans_left = 0
    /\ span = EmptyDict
    /\ business_http_requests = <<>>
    /\ result = NotStarted
    /\ ValueIdle
    /\ AttrIdle
    /\ PluginIdle

RecordBatch == NextBatchOf(RecordBatches)

RecordSpan == NextSpanOf(RecordSpans)

NextRecord == RecordBatch \/ NextScope \/ RecordSpan \/ EndSpans \/ EndScopes \/ Return

SpecRecord == InitRecord /\ [][NextRecord]_vars

----------------------------------------------------------------------------
(* extract_business_http_requests applied to a whole payload at once, as   *)
(* pytest_sessionfinish calls it: here the three lists are sequences       *)

RECURSIVE ExtractSpans(_, _, _, _)
\* `for span in spans` from the i-th span on
ExtractSpans(list, spans, name, i) ==
    IF i > Len(spans) THEN list
    ELSE ExtractSpans(ProcessSpan(list, spans[i], name), spans, name, i + 1)

RECURSIVE ExtractScopes(_, _, _, _)
\* `for scope_span in batch.get("scopeSpans")` from the i-th entry on: the
\* list afterwards, or the TypeError of iterating None
ExtractScopes(list, scopes, name, i) ==
    IF i > Len(scopes) THEN [t |-> "list", items |-> list]
    ELSE IF "spans" \notin DOMAIN scopes[i] THEN Raise("TypeError")
    ELSE ExtractScopes(ExtractSpans(list, scopes[i].spans, name, 1), scopes, name, i + 1)

RECURSIVE ExtractBatches(_, _, _)
\* `for batch in data["batches"]` from the i-th batch on, and the return
ExtractBatches(list, batches, i) ==
    IF i > Len(batches) THEN [t |-> "list", items |-> list]
    ELSE IF SkipBatch(ServiceName(batches[i])) THEN ExtractBatches(list, batches, i + 1)
    ELSE IF "scopeSpans" \notin DOMAIN batches[i] THEN Raise("TypeError")
    ELSE LET after ==
                 ExtractScopes(list, batches[i].scopeSpans, ServiceName(batches[i]), 1)
         IN  IF IsRaise(after) THEN after
             ELSE ExtractBatches(after.items, batches, i + 1)

\* the call: data["batches"] raises KeyError when the key is missing
extract_business_http_requests(data) ==
    IF "batches" \notin DOMAIN data THEN Raise("KeyError")
    ELSE ExtractBatches(<<>>, data.batches, 1)

----------------------------------------------------------------------------
(* pytest_plugin.py: the trace_id and span_id fixtures and the hook        *)
(* pytest_sessionfinish.  The database and the trace query endpoint are    *)
(* outside the program: a statement or a commit either succeeds or raises  *)
(* sqlite3.Error, a fetch either returns a decoded payload or, when the    *)
(* retries of backoff are used up, raises RequestException.  A connection  *)
(* that is never committed leaves no row in its table.                     *)

MaxCalls == 3

\* str(uuid.uuid4()): the n-th identifier generated, distinct from the others
Uuid(n) == PyStr("uuid-" \o ToString(n))

\* the values of the environment variable: unset, empty, set
Endpoints == {None, PyStr(""), PyStr("http://jaeger:16686")}

CheckoutBatch ==
    [resource |-> [attributes |-> <<ServiceAttr("checkout")>>],
     scopeSpans |-> <<[spans |-> <<SpanBase @@ [kind |-> PyStr("SPAN_KIND_SERVER"),
                                                attributes |-> HttpAttrs]>>]>>]

\* decoded response bodies: no batch, one business request, a batch
\* without scope list, a body without "batches"
Payloads ==
    { [batches |-> <<>>],
      [batches |-> <<CheckoutBatch>>],
      [batches |-> <<[resource |-> [attributes |-> <<ServiceAttr("checkout")>>]]>>],
      EmptyDict }

\* json.dumps({"data": summarized_json_data}): the text, held by the value
\* it encodes
json_dumps(summarized) == [t |-> "json", data |-> summarized.items]

\* variant of trace_id that appends before it saves
trace_id_append_first ==
    /\ hook_pc = "session"
    /\ uuids < MaxCalls
    /\ uuids' = uuids + 1
    /\ trace_ids' = Append(trace_ids, Uuid(uuids + 1))
    /\ \E outcome \in {"execute raises", "commit raises", "saved"} :
          CASE outcome = "execute raises" ->
                  /\ fixture_result' = Raise("sqlite3.Error")
                  /\ UNCHANGED <<db_trace_ids, db_span_ids, pending>>
            [] outcome = "commit raises" ->
                  /\ fixture_result' = Raise("sqlite3.Error")
                  /\ pending' = pending \cup {<<"trace_ids", Uuid(uuids + 1)>>}
                  /\ UNCHANGED <<db_trace_ids, db_span_ids>>
            [] outcome = "saved" ->
                  /\ fixture_result' = Uuid(uuids + 1)
                  /\ db_trace_ids' = db_trace_ids \cup {Uuid(uuids + 1)}
                                        \cup {row[2] : row \in {p \in pending : p[1] = "trace_ids"}}
                  /\ db_span_ids' = db_span_ids
                                        \cup {row[2] : row \in {p \in pending : p[1] = "span_ids"}}
                  /\ pending' = {}
    /\ UNCHANGED <<span_ids, hookVars, valueVars, attrVars, extractVars>>

\* save_id_to_db(conn, table_name, id_value) followed by the append to the
\* list `ids`, as both fixtures do: INSERT OR IGNORE, then commit, then
\* append.  An exception of the statement or of the commit leaves the
\* fixture before the append; a commit that succeeds commits every row
\* inserted on the connection so far.
SaveThenAppend(table_name, id_value, ids) ==
    \E outcome \in {"execute raises", "commit raises", "saved"} :
        CASE outcome = "execute raises" ->
                /\ fixture_result' = Raise("sqlite3.Error")
                /\ ids' = ids
                /\ UNCHANGED <<db_trace_ids, db_span_ids, pending>>
          [] outcome = "commit raises" ->
                /\ fixture_result' = Raise("sqlite3.Error")
                /\ ids' = ids
                /\ pending' = pending \cup {<<table_name, id_value>>}
                /\ UNCHANGED <<db_trace_ids, db_span_ids>>
          [] outcome = "saved" ->
                /\ fixture_result' = id_value
                /\ ids' = Append(ids, id_value)
                /\ LET rows == pending \cup {<<table_name, id_value>>} IN
                      /\ db_trace_ids' = db_trace_ids
                            \cup {row[2] : row \in {p \in rows : p[1] = "trace_ids"}}
                      /\ db_span_ids' = db_span_ids
                            \cup {row[2] : row \in {p \in rows : p[1] = "span_ids"}}
                /\ pending' = {}

\* the fixture trace_id
trace_id ==
    /\ hook_pc = "session"
    /\ uuids < MaxCalls
    /\ uuids' = uuids + 1
    /\ SaveThenAppend("trace_ids", Uuid(uuids + 1), trace_ids)
    /\ UNCHANGED <<span_ids, hookVars, valueVars, attrVars, extractVars>>

\* the fixture span_id
span_id ==
    /\ hook_pc = "session"
    /\ uuids < MaxCalls
    /\ uuids' = uuids + 1
    /\ SaveThenAppend("span_ids", Uuid(uuids + 1), span_ids)
    /\ UNCHANGED <<trace_ids, hookVars, valueVars, attrVars, extractVars>>

\* the state when the test session starts: the lists are empty (lines
\* 18-19), _setup_db has created the tables trace_ids and span_ids, the
\* environment variable has one of its values
InitPlugin ==
    /\ uuids = 0 /\ fixture_result = NotStarted
    /\ trace_ids = <<>> /\ span_ids = <<>>
    /\ db_trace_ids = {} /\ db_span_ids = {} /\ pending = {}
    /\ endpoint \in Endpoints
    /\ hook_pc = "session" /\ hook_index = 0 /\ hook_trace_id = None
    /\ json_data = None /\ summarized_json_data = None
    /\ staged = <<>> /\ traces_data = EmptyDict /\ hook_result = NotStarted
    /\ ValueIdle
    /\ AttrIdle
    /\ ExtractIdle

\* pytest_sessionfinish up to the loop: without endpoint it warns and
\* returns, else it opens its own connection and cursor
pytest_sessionfinish ==
    /\ hook_pc = "session"
    /\ IF ~Truthy(endpoint)
       THEN hook_pc' = "done" /\ hook_result' = None
       ELSE hook_pc' = "loop" /\ UNCHANGED hook_result
    /\ UNCHANGED <<endpoint, hook_index, hook_trace_id, json_data, summarized_json_data,
                   staged, traces_data, fixtureVars, valueVars, attrVars, extractVars>>

\* `for trace_id in trace_ids` takes its next entry, and
\* json_data = fetch_trace_data(url): a payload, or the RequestException
\* that backoff raises again when its retries are used up
FetchTraceData ==
    /\ hook_pc = "loop"
    /\ hook_index < Len(trace_ids)
    /\ hook_trace_id' = trace_ids[hook_index + 1]
    /\ \/ \E payload \in Payloads :
             /\ json_data' = payload
             /\ hook_pc' = "extract"
             /\ UNCHANGED hook_result
       \/ /\ json_data' = None
          /\ hook_pc' = "raised"
          /\ hook_result' = Raise("RequestException")
    /\ UNCHANGED <<endpoint, hook_index, summarized_json_data, staged, traces_data,
                   fixtureVars, valueVars, attrVars, extractVars>>

\* summarized_json_data = extract_business_http_requests(json_data)
Extract ==
    /\ hook_pc = "extract"
    /\ LET summarized == extract_business_http_requests(json_data) IN
          IF IsRaise(summarized)
          THEN /\ hook_pc' = "raised"
               /\ hook_result' = summarized
               /\ UNCHANGED summarized_json_data
          ELSE /\ hook_pc' = "insert"
               /\ summarized_json_data' = summarized
               /\ UNCHANGED hook_result
    /\ UNCHANGED <<endpoint, hook_index, hook_trace_id, json_data, staged, traces_data,
                   fixtureVars, valueVars, attrVars, extractVars>>

\* variant of Insert whose connection commits each statement at once
Insert_autocommit ==
    /\ hook_pc = "insert"
    /\ \/ /\ traces_data' =
                (hook_trace_id.s :> json_dumps(summarized_json_data)) @@ traces_data
          /\ hook_index' = hook_index + 1
          /\ hook_pc' = "loop"
          /\ UNCHANGED <<hook_result, staged>>
       \/ /\ hook_pc' = "raised"
          /\ hook_result' = Raise("sqlite3.Error")
          /\ UNCHANGED <<staged, hook_index, traces_data>>
    /\ UNCHANGED <<endpoint, hook_trace_id, json_data, summarized_json_data,
                   fixtureVars, valueVars, attrVars, extractVars>>

\* cursor.execute("INSERT OR REPLACE INTO traces_data ..."): the row is
\* inserted in the open transaction and the loop goes on, or the statement
\* raises
Insert ==
    /\ hook_pc = "insert"
    /\ \/ /\ staged' = Append(staged, [trace_id |-> hook_trace_id,
                                       json_data |-> json_dumps(summarized_json_data)])
          /\ hook_index' = hook_index + 1
          /\ hook_pc' = "loop"
          /\ UNCHANGED hook_result
       \/ /\ hook_pc' = "raised"
          /\ hook_result' = Raise("sqlite3.Error")
          /\ UNCHANGED <<staged, hook_index>>
    /\ UNCHANGED <<endpoint, hook_trace_id, json_data, summarized_json_data, traces_data,
                   fixtureVars, valueVars, attrVars, extractVars>>

RECURSIVE Replaced(_, _, _)
\* the table after the rows i.. of the transaction, each replacing the row
\* of the same trace_id
Replaced(table, rows, i) ==
    IF i > Len(rows) THEN table
    ELSE Replaced((rows[i].trace_id.s :> rows[i].json_data) @@ table, rows, i + 1)

\* the loop is exhausted: conn.commit() makes the inserted rows permanent,
\* or raises
Commit ==
    /\ hook_pc = "loop"
    /\ hook_index = Len(trace_ids)
    /\ \/ /\ traces_data' = Replaced(traces_data, staged, 1)
          /\ staged' = <<>>
          /\ hook_pc' = "close"
          /\ UNCHANGED hook_result
       \/ /\ hook_pc' = "raised"
          /\ hook_result' = Raise("sqlite3.Error")
          /\ UNCHANGED <<staged, traces_data>>
    /\ UNCHANGED <<endpoint, hook_index, hook_trace_id, json_data, summarized_json_data,
                   fixtureVars, valueVars, attrVars, extractVars>>

\* conn.close() and the end of the hook
Close ==
    /\ hook_pc = "close"
    /\ hook_pc' = "done"
    /\ hook_result' = None
    /\ UNCHANGED <<endpoint, hook_index, hook_trace_id, json_data, summarized_json_data,
                   staged, traces_data, fixtureVars, valueVars, attrVars, extractVars>>

NextPlugin ==
    trace_id \/ span_id \/ pytest_sessionfinish \/ FetchTraceData \/ Extract
        \/ Insert \/ Commit \/ Close

SpecPlugin == InitPlugin /\ [][NextPlugin]_vars

----------------------------------------------------------------------------
(* Properties of extract_business_http_requests                            *)

\* the batch's resource carries service.name = "kong" as a string
IsKongBatch(b) ==
    /\ "resource" \in DOMAIN b
    /\ "attributes" \in DOMAIN b.resource
    /\ \E i \in 1..Len(b.resource.attributes) :
          /\ b.resource.attributes[i].key = "service.name"
          /\ b.resource.attributes[i].value = [stringValue |-> PyStr("kong")]

\* the span carries a non-empty string http.method
HasHttpMethod(sp) ==
    /\ "attributes" \in DOMAIN sp
    /\ \E i \in 1..Len(sp.attributes) :
          /\ sp.attributes[i].key = "http.method"
          /\ "stringValue" \in DOMAIN sp.attributes[i].value
          /\ sp.attributes[i].value.stringValue.s # ""

HasKind(sp, k) == "kind" \in DOMAIN sp /\ sp.kind = PyStr(k)

\* a step that iterated one more batch / one more span
BatchStep == batches_left' = batches_left - 1

SpanStep == spans_left' = spans_left - 1

\* C1: a batch whose service.name is exactly "kong" contributes no record,
\* whatever scope entries it has: the step that reaches it leaves the list
\* as it is, raises nothing and goes on with the next batch, and no record
\* of the list ever carries the service name "kong".
C1_KongBatchContributesNothing ==
    /\ [](\A i \in 1..Len(business_http_requests) :
             ~EqStr(business_http_requests[i].service_name, "kong"))
    /\ [][(BatchStep /\ IsKongBatch(batch'))
            => /\ business_http_requests' = business_http_requests
               /\ pc' = "batches"
               /\ result' = result]_vars

\* a "kong" batch with scope entries was passed over and the record of an
\* earlier batch is still in the list
C1_Witness ==
    /\ pc = "batches"
    /\ IsKongBatch(batch)
    /\ "scopeSpans" \in DOMAIN batch /\ batch.scopeSpans > 0
    /\ Len(business_http_requests) > 0

\* C2: a span is emitted only if its kind is exactly "SPAN_KIND_SERVER":
\* a span with a valid http.method and another kind or no kind adds nothing,
\* the same span with kind SPAN_KIND_SERVER adds one record, and every
\* record of the list has kind SPAN_KIND_SERVER.
C2_OnlyServerKind ==
    /\ [](\A i \in 1..Len(business_http_requests) :
             business_http_requests[i].kind = PyStr("SPAN_KIND_SERVER"))
    /\ [][(SpanStep /\ HasHttpMethod(span'))
            => IF HasKind(span', "SPAN_KIND_SERVER")
               THEN /\ Len(business_http_requests') = Len(business_http_requests) + 1
                    /\ business_http_requests'[Len(business_http_requests')].kind
                          = PyStr("SPAN_KIND_SERVER")
               ELSE business_http_requests' = business_http_requests]_vars

\* a CLIENT span with a valid http.method was iterated after a record had
\* been emitted, and the list still holds that one record only
C2_Witness ==
    /\ pc = "spans"
    /\ HasKind(span, "SPAN_KIND_CLIENT")
    /\ HasHttpMethod(span)
    /\ Len(business_http_requests) = 1

\* C3: a span without http.method entry, or whose http.method is empty, is
\* never emitted, whatever its kind and its other attributes: its step
\* leaves the list as it is, and every record of the list has a non-empty
\* http_method.
C3_NoMethodNoRecord ==
    /\ [](\A i \in 1..Len(business_http_requests) :
             /\ business_http_requests[i].http_method.t = "str"
             /\ business_http_requests[i].http_method.s # "")
    /\ [][(SpanStep /\ ~HasHttpMethod(span'))
            => business_http_requests' = business_http_requests]_vars

\* a SERVER span whose attributes hold no non-empty http.method (but other
\* attributes) was iterated and nothing was emitted
C3_Witness ==
    /\ pc = "spans"
    /\ HasKind(span, "SPAN_KIND_SERVER")
    /\ "attributes" \in DOMAIN span /\ Len(span.attributes) > 0
    /\ ~HasHttpMethod(span)
    /\ business_http_requests = <<>>

\* C4: the output keeps the input order: a step never removes or moves a
\* record, a record is only ever added at the end and is the one of the span
\* just iterated, and a matching span always adds its record, also when an
\* identical record is already in the list (no deduplication).
C4_OrderPreserved ==
    /\ [][\/ business_http_requests' = business_http_requests
          \/ /\ SpanStep
             /\ Len(business_http_requests') = Len(business_http_requests) + 1
             /\ SubSeq(business_http_requests', 1, Len(business_http_requests))
                   = business_http_requests
             /\ business_http_requests'[Len(business_http_requests')].span_id = span'.spanId
             /\ business_http_requests'[Len(business_http_requests')].service_name
                   = service_name]_vars
    /\ [][(SpanStep /\ HasHttpMethod(span') /\ HasKind(span', "SPAN_KIND_SERVER"))
            => Len(business_http_requests') = Len(business_http_requests) + 1]_vars

\* two identical spans of one batch gave two records, followed by the
\* record of a later batch with another service name
C4_Witness ==
    /\ Len(business_http_requests) = 3
    /\ business_http_requests[1] = business_http_requests[2]
    /\ business_http_requests[3].service_name # business_http_requests[1].service_name
    /\ business_http_requests[3].service_name = service_name

\* C5: extraction never fails on a batch without "scopeSpans" or a scope
\* entry without "spans".
C5_MissingListsNotFatal ==
    ~(/\ IsRaise(result)
      /\ \/ "scopeSpans" \notin DOMAIN batch
         \/ "spans" \notin DOMAIN scope_span)

\* the batch has no resource, or a resource without attributes
NoResourceAttributes(b) ==
    "resource" \notin DOMAIN b \/ "attributes" \notin DOMAIN b.resource

\* C6: a batch without resource, or whose resource has no attributes, has
\* the service name None and is not skipped; the missing resource raises
\* nothing (the step fails only when "scopeSpans" is missing too), and each
\* matching span of the batch adds a record whose service_name is None.
C6_MissingResourceIsEmpty ==
    /\ [][(BatchStep /\ NoResourceAttributes(batch'))
            => /\ service_name' = None
               /\ pc' # "batches"
               /\ IF "scopeSpans" \in DOMAIN batch'
                  THEN pc' = "scopes" /\ result' = NotStarted
                  ELSE pc' = "raised"]_vars
    /\ [][(/\ SpanStep /\ NoResourceAttributes(batch)
           /\ HasHttpMethod(span') /\ HasKind(span', "SPAN_KIND_SERVER"))
            => /\ Len(business_http_requests') = Len(business_http_requests) + 1
               /\ business_http_requests'[Len(business_http_requests')].service_name = None]_vars

\* a batch without resource emitted a record with service_name None
C6_Witness ==
    /\ "resource" \notin DOMAIN batch
    /\ pc = "spans"
    /\ Len(business_http_requests) > 0
    /\ business_http_requests[Len(business_http_requests)].service_name = None
    /\ HasHttpMethod(span) /\ HasKind(span, "SPAN_KIND_SERVER")

----------------------------------------------------------------------------
(* Properties of the AnyValue construction                                 *)

\* the variants given with a payload
Populated == {f \in fieldSet : f \in DOMAIN values /\ values[f] # None}

\* the text sub occurs in the text s
Occurs(sub, s) ==
    \E i \in 1..(Len(s) - Len(sub) + 1) : SubSeq(s, i, i + Len(sub) - 1) = sub

\* C7 as stated: with two or more populated variants the construction fails
\* with an error that names the conflicting fields.
C7_ErrorNamesFields ==
    (constructed # NotStarted /\ Cardinality(Populated) >= 2)
        => /\ IsRaise(constructed)
           /\ \A f \in Populated : Occurs(f, constructed.msg)

\* C7 amended: with two or more populated variants the construction always
\* fails and gives no object; the error is the ValueError with the fixed
\* message "Only one of the fields in AnyValue can be set", which names
\* none of the conflicting fields.
C7_TwoOrMoreRejected ==
    (constructed # NotStarted /\ Cardinality(Populated) >= 2)
        => /\ IsRaise(constructed)
           /\ constructed.exc = "ValueError"
           /\ constructed.msg = "Only one of the fields in AnyValue can be set"
           /\ \A f \in Populated : ~Occurs(f, constructed.msg)

\* a construction with exactly two populated variants (and a third given as
\* None) was rejected
C7_Witness ==
    /\ IsRaise(constructed)
    /\ Cardinality(Populated) = 2
    /\ Cardinality(DOMAIN values) = 3

\* C8: with at most one populated variant the construction succeeds: the
\* check rejects nothing, a variant given as None counts as not populated,
\* and the object holds the given payload (all None for the empty value).
C8_AtMostOneAccepted ==
    (constructed # NotStarted /\ Cardinality(Populated) <= 1)
        => /\ constructed.t = "AnyValue"
           /\ \A f \in fieldSet :
                 constructed.obj[f] = IF f \in Populated THEN values[f] ELSE None

\* one populated variant next to variants given as None was accepted
C8_Witness ==
    /\ constructed.t = "AnyValue"
    /\ Cardinality(Populated) = 1
    /\ Cardinality(DOMAIN values) > 2

----------------------------------------------------------------------------
(* Properties of get_attribute                                             *)

HasKey == \E i \in 1..Len(attributes) : attributes[i].key = key

FirstWithKey ==
    CHOOSE i \in 1..Len(attributes) :
        /\ attributes[i].key = key
        /\ \A j \in 1..(i - 1) : attributes[j].key # key

\* C9: the first entry with the key decides alone: the result is the
\* coercion of that entry (string, else integer, else double), and None
\* when that entry holds none of the three, whatever later entries hold.
C9_FirstEntryDecides ==
    (ret # NotStarted /\ HasKey)
        => LET value == attributes[FirstWithKey].value IN
              ret = IF "stringValue" \in DOMAIN value THEN value.stringValue
                    ELSE IF "intValue" \in DOMAIN value THEN int(value.intValue)
                    ELSE IF "doubleValue" \in DOMAIN value THEN float(value.doubleValue)
                    ELSE None

\* C10: for the matching entry the priority is string, then integer, then
\* double, each returned with its own type (str, int, float), and None
\* when none of the three is populated.
C10_CoercionPriority ==
    (ret # NotStarted /\ HasKey)
        => LET value == attributes[FirstWithKey].value IN
              /\ "stringValue" \in DOMAIN value
                    => ret.t = "str" /\ ret = value.stringValue
              /\ ("stringValue" \notin DOMAIN value /\ "intValue" \in DOMAIN value)
                    => /\ ret.t = "int"
                       /\ value.intValue.t = "int" => ret = value.intValue
                       /\ value.intValue = PyStr("404") => ret = PyInt(404)
              /\ (DOMAIN value \cap {"stringValue", "intValue"} = {}
                    /\ "doubleValue" \in DOMAIN value)
                    => /\ ret.t = "float"
                       /\ value.doubleValue.t = "float" => ret = value.doubleValue
                       /\ value.doubleValue = PyStr("2.5") => ret = PyFloat(25)
                       /\ value.doubleValue = PyInt(3) => ret = PyFloat(30)
              /\ DOMAIN value \cap {"stringValue", "intValue", "doubleValue"} = {}
                    => ret = None

\* C11: get_attribute never raises, and it returns None when no entry has
\* the key or when the entry with the key is empty or holds only a bool,
\* array, kvlist or bytes variant.
C11_UnhandledIsNotFound ==
    (ret # NotStarted)
        => /\ ~IsRaise(ret)
           /\ ~HasKey => ret = None
           /\ (HasKey /\ DOMAIN attributes[FirstWithKey].value
                            \subseteq {"boolValue", "arrayValue", "kvlistValue", "bytesValue"})
                 => ret = None

----------------------------------------------------------------------------
(* Further properties of extract_business_http_requests                    *)

\* C14: when data["batches"] is empty the call iterates nothing, raises
\* nothing and returns the empty list.
C14_EmptyBatchesEmptyResult ==
    (batches_left = 0)
        => [](/\ pc \in {"batches", "returned"}
              /\ business_http_requests = <<>>
              /\ result \in {NotStarted, [t |-> "list", items |-> <<>>]}
              /\ pc = "returned" => result = [t |-> "list", items |-> <<>>])

\* the call returned the empty list and no batch, scope entry or span is held
C14_Witness ==
    /\ pc = "returned"
    /\ result = [t |-> "list", items |-> <<>>]
    /\ batches_left = 0 /\ batch = EmptyDict /\ scope_span = EmptyDict /\ span = EmptyDict

\* the span has kind SPAN_KIND_SERVER and a non-empty string http.method
Matching(sp) == HasKind(sp, "SPAN_KIND_SERVER") /\ HasHttpMethod(sp)

\* C13: every span of a batch whose service.name is not exactly "kong"
\* (a name that differs in case only, or no name at all, included), with
\* kind SPAN_KIND_SERVER and a non-empty http.method, gives exactly one
\* record, and no other step adds or removes one: such a batch is entered,
\* no loop is left before its last entry, each iterated span adds one
\* record if it matches and none otherwise, and the list is returned as it
\* is, so the returned length is the number of such spans.
C13_EveryMatchingSpanOnce ==
    /\ [](pc \in {"scopes", "spans"} => ~IsKongBatch(batch))
    /\ [](pc = "returned" => result = [t |-> "list", items |-> business_http_requests])
    /\ [][(BatchStep /\ ~IsKongBatch(batch') /\ "scopeSpans" \in DOMAIN batch')
            => pc' = "scopes" /\ scopes_left' = batch'.scopeSpans]_vars
    /\ [][(pc = "scopes" /\ pc' = "spans") => spans_left' = scope_span'.spans]_vars
    /\ [][(pc = "spans" /\ pc' # "spans") => spans_left = 0]_vars
    /\ [][(pc = "scopes" /\ pc' = "batches") => scopes_left = 0]_vars
    /\ [][pc' = "returned" => batches_left = 0]_vars
    /\ [][IF SpanStep /\ Matching(span')
          THEN /\ Len(business_http_requests') = Len(business_http_requests) + 1
               /\ SubSeq(business_http_requests', 1, Len(business_http_requests))
                     = business_http_requests
               /\ business_http_requests'[Len(business_http_requests')].service_name
                     = service_name
          ELSE business_http_requests' = business_http_requests]_vars

\* two matching spans, one of a batch named "Kong" and one of a batch
\* without service name, were returned as two records
C13_Witness ==
    /\ pc = "returned"
    /\ Len(result.items) = 2
    /\ result.items[1].service_name = PyStr("Kong")
    /\ result.items[2].service_name = None

\* the value under key k of the source span, None when the key is missing
Field(sp, k) == IF k \in DOMAIN sp THEN sp[k] ELSE None

HasAttr(sp, k) ==
    "attributes" \in DOMAIN sp /\ \E i \in 1..Len(sp.attributes) : sp.attributes[i].key = k

\* the span of the checkout / "POST /pay" example
ExampleSpan == SpanBase @@ [kind |-> PyStr("SPAN_KIND_SERVER"), attributes |-> HttpAttrs]

\* C12: the record appended for a span copies the span field by field
\* (traceId, spanId, parentSpanId, name, kind, start and end time), takes
\* service_name from the batch and http_method, http_url, http_status_code
\* from the lookups on the span's attributes, the last two None when the
\* span has no such attribute; the checkout example gives the record with
\* service_name "checkout", POST, /pay, 200, 100 and 150.
C12_RecordCopiesSpan ==
    [][(SpanStep /\ business_http_requests' # business_http_requests)
        => LET r == business_http_requests'[Len(business_http_requests')] IN
           /\ Len(business_http_requests') = Len(business_http_requests) + 1
           /\ DOMAIN r = {"trace_id", "span_id", "parent_span_id", "service_name",
                          "span_name", "kind", "start_time_unix_nano",
                          "end_time_unix_nano", "http_method", "http_url",
                          "http_status_code"}
           /\ r.trace_id = Field(span', "traceId")
           /\ r.span_id = Field(span', "spanId")
           /\ r.parent_span_id = Field(span', "parentSpanId")
           /\ r.span_name = Field(span', "name")
           /\ r.kind = Field(span', "kind")
           /\ r.start_time_unix_nano = Field(span', "startTimeUnixNano")
           /\ r.end_time_unix_nano = Field(span', "endTimeUnixNano")
           /\ r.service_name = ServiceName(batch)
           /\ r.http_method = get_attribute(span'.attributes, "http.method")
           /\ r.http_url = get_attribute(span'.attributes, "http.url")
           /\ r.http_status_code = get_attribute(span'.attributes, "http.status_code")
           /\ ~HasAttr(span', "http.url") => r.http_url = None
           /\ ~HasAttr(span', "http.status_code") => r.http_status_code = None
           /\ (span' = ExampleSpan /\ service_name = PyStr("checkout"))
                 => r = [trace_id |-> PyStr("0123"), span_id |-> PyStr("abcd"),
                         parent_span_id |-> None, service_name |-> PyStr("checkout"),
                         span_name |-> PyStr("POST /pay"),
                         kind |-> PyStr("SPAN_KIND_SERVER"),
                         start_time_unix_nano |-> PyInt(100),
                         end_time_unix_nano |-> PyInt(150),
                         http_method |-> PyStr("POST"), http_url |-> PyStr("/pay"),
                         http_status_code |-> PyInt(200)]]_vars

\* the checkout example was returned as exactly one record
C12_Witness ==
    /\ pc = "returned"
    /\ Len(result.items) = 1
    /\ result.items[1].service_name = PyStr("checkout")
    /\ result.items[1].http_method = PyStr("POST")
    /\ result.items[1].http_url = PyStr("/pay")
    /\ result.items[1].http_status_code = PyInt(200)
    /\ result.items[1].start_time_unix_nano = PyInt(100)
    /\ result.items[1].end_time_unix_nano = PyInt(150)

----------------------------------------------------------------------------
(* Properties of the pytest plugin                                         *)

\* a step of one of the two fixtures
FixtureStep == uuids' = uuids + 1

Ids(list) == {list[i] : i \in 1..Len(list)}

\* C16: every identifier held in trace_ids and span_ids is a committed row
\* of its table; a list grows only by the identifier that the fixture step
\* has just saved, and a fixture call whose save raises leaves both lists
\* as they were; pytest_sessionfinish queries only identifiers of
\* trace_ids, so never one whose save failed.
C16_SavedBeforeAppended ==
    /\ [](Ids(trace_ids) \subseteq db_trace_ids /\ Ids(span_ids) \subseteq db_span_ids)
    /\ [](hook_trace_id # None
             => hook_trace_id \in Ids(trace_ids) /\ hook_trace_id \in db_trace_ids)
    /\ [][trace_ids' # trace_ids
            => /\ FixtureStep
               /\ trace_ids' = Append(trace_ids, Uuid(uuids'))
               /\ fixture_result' = Uuid(uuids')
               /\ Uuid(uuids') \in db_trace_ids']_vars
    /\ [][span_ids' # span_ids
            => /\ FixtureStep
               /\ span_ids' = Append(span_ids, Uuid(uuids'))
               /\ fixture_result' = Uuid(uuids')
               /\ Uuid(uuids') \in db_span_ids']_vars
    /\ [][(FixtureStep /\ IsRaise(fixture_result'))
            => /\ trace_ids' = trace_ids /\ span_ids' = span_ids
               /\ Uuid(uuids') \notin Ids(trace_ids') \cup Ids(span_ids')]_vars

\* the save of the first trace identifier failed, the second was saved and
\* appended, and the hook has queried and stored the second only
C16_Witness ==
    /\ uuids = 2
    /\ trace_ids = <<Uuid(2)>> /\ span_ids = <<>>
    /\ Uuid(1) \notin db_trace_ids
    /\ hook_pc = "done"
    /\ DOMAIN traces_data = {Uuid(2).s}

\* C15: with the endpoint set, pytest_sessionfinish takes the trace
\* identifiers one after another in the order of trace_ids, each fetched,
\* then extracted, then inserted before the next is fetched; the table
\* traces_data changes in one step only, the commit after the last
\* identifier; when a fetch, an extraction, an insert or the commit raises,
\* the hook ends there and the table holds no row of this session, the
\* rows of the identifiers done before included.
C15_OneByOneThenCommit ==
    /\ [](hook_pc \in {"loop", "extract", "insert", "raised"} => hook_index = Len(staged))
    /\ [](\A i \in 1..Len(staged) : staged[i].trace_id = trace_ids[i])
    /\ [](hook_pc \in {"extract", "insert"} => hook_trace_id = trace_ids[hook_index + 1])
    /\ [](hook_pc = "raised" => IsRaise(hook_result) /\ traces_data = EmptyDict)
    /\ [](hook_pc # "session" => (Truthy(endpoint) \/ (hook_pc = "done" /\ staged = <<>>)))
    /\ [][hook_trace_id' # hook_trace_id
            => hook_pc = "loop" /\ hook_trace_id' = trace_ids[hook_index + 1]]_vars
    /\ [][hook_pc' = "extract" => hook_pc = "loop"]_vars
    /\ [][hook_pc' = "insert" => hook_pc = "extract"]_vars
    /\ [][staged' # staged /\ staged' # <<>>
            => /\ hook_pc = "insert"
               /\ hook_index' = hook_index + 1
               /\ staged' = Append(staged,
                     [trace_id |-> hook_trace_id,
                      json_data |-> json_dumps(extract_business_http_requests(json_data))])]_vars
    /\ [][traces_data' # traces_data
            => /\ hook_pc = "loop" /\ hook_pc' = "close"
               /\ hook_index = Len(trace_ids)
               /\ DOMAIN traces_data' = {trace_ids[i].s : i \in 1..Len(trace_ids)}]_vars
    /\ [][(hook_pc = "close" \/ hook_pc = "done" \/ hook_pc = "raised")
            => traces_data' = traces_data /\ staged' = staged]_vars

\* the first of two identifiers was fetched, extracted and inserted, the
\* fetch of the second failed, and the table holds no row
C15_Witness ==
    /\ hook_pc = "raised"
    /\ hook_result = Raise("RequestException")
    /\ Len(trace_ids) = 2
    /\ Len(staged) = 1 /\ staged[1].trace_id = trace_ids[1]
    /\ hook_trace_id = trace_ids[2]
    /\ traces_data = EmptyDict

====
